---- MODULE Spec2Model ----
(***************************************************************************)
(* State-machine model of lab1/additional_excercise.ipynb: the notebook's  *)
(* code cells run top to bottom over the Ames housing table (cleaning,     *)
(* default filling, recoding, feature transformation, OLS fit, diagnostic  *)
(* tests).  An uncaught exception in a cell ends the run.                  *)
(***************************************************************************)
EXTENDS Integers, Sequences, FiniteSets, TLC

VARIABLES
    pc,                   \* the next code cell to run, "done" or "aborted"
    raw,                  \* the table as read by pd.read_csv (never rebound)
    df,                   \* the notebook's global df
    y,                    \* the notebook's global y
    numerical_features,   \* the notebook's global numerical_features
    categorical_features, \* the notebook's global categorical_features
    column_transformer,   \* fitted parameters of column_transformer
    model,                \* the fitted OLS results object
    out,                  \* standard output, one entry per printed line
    err,                  \* the exception that ended the run, "" when none
    attempted,            \* the diagnostics whose cell has started running
    raised,               \* the diagnostics whose test call raised
    cleaned,              \* the table the first cleaning pass produced
    arg,                  \* input of the function under study (function specs)
    res                   \* result of the function under study (function specs)

vars == <<pc, raw, df, y, numerical_features, categorical_features,
          column_transformer, model, out, err, attempted, raised, cleaned,
          arg, res>>

(***************************************************************************)
(* Cell values.  A pandas cell is a string, a number or missing (NaN).     *)
(***************************************************************************)
NaN == [t |-> "nan", s |-> "", n |-> 0]
Str(v) == [t |-> "str", s |-> v, n |-> 0]
Num(k) == [t |-> "num", s |-> "", n |-> k]

isna(v) == v.t = "nan"
IsStr(v) == v.t = "str"
IsNum(v) == v.t = "num"

(***************************************************************************)
(* Bounds of the explored inputs.                                          *)
(***************************************************************************)
MaxRows == 2
MaxStats == 3
MaxLen == 3
MaxNum == 2

(***************************************************************************)
(* Literals of the cleaning cell.                                          *)
(***************************************************************************)
id_columns == {"Order", "PID"}
excluded_neighborhoods == {"GrnHill", "Landmrk"}
GrLivAreaBound == 4000

(***************************************************************************)
(* default_values, in dict order.  "SaleCondition" is written twice in the *)
(* literal with the same value; a dict keeps the first position.           *)
(***************************************************************************)
default_values == <<
    <<"Alley", Str("None")>>,
    <<"BedroomAbvGr", Num(0)>>,
    <<"BsmtQual", Str("No")>>,
    <<"BsmtCond", Str("No")>>,
    <<"BsmtExposure", Str("No")>>,
    <<"BsmtFinType1", Str("No")>>,
    <<"BsmtFinType2", Str("No")>>,
    <<"BsmtFullBath", Num(0)>>,
    <<"BsmtHalfBath", Num(0)>>,
    <<"BsmtUnfSF", Num(0)>>,
    <<"Condition1", Str("Norm")>>,
    <<"Condition2", Str("Norm")>>,
    <<"ExterCond", Str("TA")>>,
    <<"ExterQual", Str("TA")>>,
    <<"Fence", Str("No")>>,
    <<"Functional", Str("Typ")>>,
    <<"GarageType", Str("No")>>,
    <<"GarageFinish", Str("No")>>,
    <<"GarageQual", Str("No")>>,
    <<"GarageCond", Str("No")>>,
    <<"GarageArea", Num(0)>>,
    <<"GarageCars", Num(0)>>,
    <<"HalfBath", Num(0)>>,
    <<"HeatingQC", Str("Ta")>>,
    <<"KitchenAbvGr", Num(0)>>,
    <<"KitchenQual", Str("TA")>>,
    <<"LotFrontage", Num(0)>>,
    <<"LotShape", Str("Reg")>>,
    <<"MasVnrType", Str("None")>>,
    <<"MasVnrArea", Num(0)>>,
    <<"MiscFeature", Str("No")>>,
    <<"MiscVal", Num(0)>>,
    <<"OpenPorchSF", Num(0)>>,
    <<"PavedDrive", Str("N")>>,
    <<"PoolQC", Str("No")>>,
    <<"PoolArea", Num(0)>>,
    <<"SaleCondition", Str("Normal")>>,
    <<"ScreenPorch", Num(0)>>,
    <<"TotRmsAbvGrd", Num(0)>>,
    <<"Utilities", Str("AllPub")>>,
    <<"WoodDeckSF", Num(0)>>,
    <<"CentralAir", Num(0)>>,
    <<"EnclosedPorch", Num(0)>>,
    <<"FireplaceQu", Num(0)>>,
    <<"Fireplaces", Num(0)>> >>

default_columns == {default_values[i][1] : i \in 1..Len(default_values)}

(***************************************************************************)
(* The nested dict passed to df.replace: column -> {raw value -> target}.  *)
(***************************************************************************)
StrToNum(pairs) == {<<Str(p[1]), Num(p[2])>> : p \in pairs}
NumToStr(pairs) == {<<Num(p[1]), Str(p[2])>> : p \in pairs}

quality_no == {<<"No", 0>>, <<"Po", 1>>, <<"Fa", 2>>, <<"TA", 3>>, <<"Gd", 4>>, <<"Ex", 5>>}
quality == {<<"Po", 1>>, <<"Fa", 2>>, <<"TA", 3>>, <<"Gd", 4>>, <<"Ex", 5>>}
finish_type == {<<"No", 0>>, <<"Unf", 1>>, <<"LwQ", 2>>, <<"Rec", 3>>,
                <<"BLQ", 4>>, <<"ALQ", 5>>, <<"GLQ", 6>>}

recoding_table == [
    MSSubClass |-> NumToStr({<<20, "SC20">>, <<30, "SC30">>, <<40, "SC40">>,
        <<45, "SC45">>, <<50, "SC50">>, <<60, "SC60">>, <<70, "SC70">>,
        <<75, "SC75">>, <<80, "SC80">>, <<85, "SC85">>, <<90, "SC90">>,
        <<120, "SC120">>, <<150, "SC150">>, <<160, "SC160">>,
        <<180, "SC180">>, <<190, "SC190">>}),
    MoSold |-> NumToStr({<<1, "Jan">>, <<2, "Feb">>, <<3, "Mar">>, <<4, "Apr">>,
        <<5, "May">>, <<6, "Jun">>, <<7, "Jul">>, <<8, "Aug">>, <<9, "Sep">>,
        <<10, "Oct">>, <<11, "Nov">>, <<12, "Dec">>}),
    Alley |-> StrToNum({<<"None", 0>>, <<"Grvl", 1>>, <<"Pave", 2>>}),
    BsmtCond |-> StrToNum(quality_no),
    BsmtExposure |-> StrToNum({<<"No", 0>>, <<"Mn", 1>>, <<"Av", 2>>, <<"Gd", 3>>}),
    BsmtFinType1 |-> StrToNum(finish_type),
    BsmtFinType2 |-> StrToNum(finish_type),
    BsmtQual |-> StrToNum(quality_no),
    ExterCond |-> StrToNum(quality),
    ExterQual |-> StrToNum(quality),
    FireplaceQu |-> StrToNum(quality_no),
    Functional |-> StrToNum({<<"Sal", 1>>, <<"Sev", 2>>, <<"Maj2", 3>>,
        <<"Maj1", 4>>, <<"Mod", 5>>, <<"Min2", 6>>, <<"Min1", 7>>, <<"Typ", 8>>}),
    GarageCond |-> StrToNum(quality_no),
    GarageQual |-> StrToNum(quality_no),
    HeatingQC |-> StrToNum(quality),
    KitchenQual |-> StrToNum(quality),
    LandSlope |-> StrToNum({<<"Sev", 1>>, <<"Mod", 2>>, <<"Gtl", 3>>}),
    LotShape |-> StrToNum({<<"IR3", 1>>, <<"IR2", 2>>, <<"IR1", 3>>, <<"Reg", 4>>}),
    PavedDrive |-> StrToNum({<<"N", 0>>, <<"P", 1>>, <<"Y", 2>>}),
    PoolQC |-> StrToNum({<<"No", 0>>, <<"Fa", 1>>, <<"TA", 2>>, <<"Gd", 3>>, <<"Ex", 4>>}),
    Street |-> StrToNum({<<"Grvl", 0>>, <<"Pave", 1>>}),
    Utilities |-> StrToNum({<<"ELO", 1>>, <<"NoSeWa", 2>>, <<"NoSewr", 3>>, <<"AllPub", 4>>}) ]

recoded_columns == DOMAIN recoding_table

Keys(sub) == {p[1] : p \in sub}
Lookup(sub, v) == (CHOOSE p \in sub : p[1] = v)[2]

(***************************************************************************)
(* Tables.  A DataFrame is its column labels, in order, and its rows, in   *)
(* order; a row maps each column label to a cell value.                    *)
(***************************************************************************)
Range(f) == {f[i] : i \in DOMAIN f}
Cols(t) == Range(t.columns)
Column(t, c) == [i \in 1..Len(t.rows) |-> t.rows[i][c]]

(* Python's ordering of the strings that occur in the explored tables. *)
StrOrder == <<"Abnorml", "AllPub", "Artery", "Attchd", "Av", "BrkFace",
    "Detchd", "Ex", "Feedr", "Fin", "FuseA", "GLQ", "Gar2", "Gd", "GdWo",
    "GrnHill", "Grvl", "Gtl", "IR1", "Jan", "Jun", "Landmrk", "Mn", "MnPrv",
    "Mod", "N", "NAmes", "No", "NoSewr", "None", "Norm", "Normal", "P",
    "Pave", "Reg", "SBrkr", "SC20", "SC60", "Shed", "Stone", "TA", "Ta",
    "Typ", "Unf", "Unk", "Y">>

(***************************************************************************)
(* The explored input tables (the result of pd.read_csv and of the header  *)
(* normalisation).  Every column the notebook names is present, plus one   *)
(* numeric and one string column it never names.  Per column: a typical    *)
(* value, an alternative value, and a value outside the recoding keys.     *)
(***************************************************************************)
csv_columns == <<"Order", "PID", "MSSubClass", "LotFrontage", "LotArea",
    "Street", "Alley", "LotShape", "Utilities", "LandSlope", "Neighborhood",
    "Condition1", "Condition2", "MasVnrType", "MasVnrArea", "ExterQual",
    "ExterCond", "BsmtQual", "BsmtCond", "BsmtExposure", "BsmtFinType1",
    "BsmtFinType2", "BsmtUnfSF", "HeatingQC", "CentralAir", "Electrical",
    "GrLivArea", "BsmtFullBath", "BsmtHalfBath", "HalfBath", "BedroomAbvGr",
    "KitchenAbvGr", "KitchenQual", "TotRmsAbvGrd", "Functional", "Fireplaces",
    "FireplaceQu", "GarageType", "GarageFinish", "GarageCars", "GarageArea",
    "GarageQual", "GarageCond", "PavedDrive", "WoodDeckSF", "OpenPorchSF",
    "EnclosedPorch", "ScreenPorch", "PoolArea", "PoolQC", "Fence",
    "MiscFeature", "MiscVal", "MoSold", "SaleCondition", "SalePrice">>

Ordinal(a, b) == <<Str(a), Str(b), Str("Unk")>>
Nominal(a, b) == <<Str(a), Str(b), Str(a)>>
Numeric(a, b) == <<Num(a), Num(b), Num(a)>>

column_values == [
    Order |-> Numeric(1, 1), PID |-> Numeric(5, 5),
    MSSubClass |-> <<Num(20), Num(60), Num(25)>>,
    LotFrontage |-> Numeric(60, 80), LotArea |-> Numeric(9, 12),
    Street |-> Ordinal("Pave", "Grvl"), Alley |-> Ordinal("Grvl", "Pave"),
    LotShape |-> Ordinal("Reg", "IR1"), Utilities |-> Ordinal("AllPub", "NoSewr"),
    LandSlope |-> Ordinal("Gtl", "Mod"), Neighborhood |-> Nominal("NAmes", "NAmes"),
    Condition1 |-> Nominal("Feedr", "Artery"), Condition2 |-> Nominal("Norm", "Feedr"),
    MasVnrType |-> Nominal("BrkFace", "Stone"), MasVnrArea |-> Numeric(1, 3),
    ExterQual |-> Ordinal("TA", "Gd"), ExterCond |-> Ordinal("TA", "Gd"),
    BsmtQual |-> Ordinal("TA", "Gd"), BsmtCond |-> Ordinal("TA", "Gd"),
    BsmtExposure |-> Ordinal("Mn", "Av"), BsmtFinType1 |-> Ordinal("Unf", "GLQ"),
    BsmtFinType2 |-> Ordinal("Unf", "GLQ"), BsmtUnfSF |-> Numeric(1, 3),
    HeatingQC |-> Ordinal("TA", "Ex"), CentralAir |-> Nominal("Y", "N"),
    Electrical |-> Nominal("SBrkr", "FuseA"), GrLivArea |-> Numeric(1500, 1500),
    BsmtFullBath |-> Numeric(1, 2), BsmtHalfBath |-> Numeric(1, 2),
    HalfBath |-> Numeric(1, 2), BedroomAbvGr |-> Numeric(3, 4),
    KitchenAbvGr |-> Numeric(1, 2), KitchenQual |-> Ordinal("TA", "Gd"),
    TotRmsAbvGrd |-> Numeric(5, 7), Functional |-> Ordinal("Typ", "Mod"),
    Fireplaces |-> Numeric(1, 2), FireplaceQu |-> Ordinal("TA", "Gd"),
    GarageType |-> Nominal("Attchd", "Detchd"), GarageFinish |-> Nominal("Unf", "Fin"),
    GarageCars |-> Numeric(1, 2), GarageArea |-> Numeric(2, 4),
    GarageQual |-> Ordinal("TA", "Gd"), GarageCond |-> Ordinal("TA", "Gd"),
    PavedDrive |-> Ordinal("Y", "P"), WoodDeckSF |-> Numeric(1, 3),
    OpenPorchSF |-> Numeric(1, 3), EnclosedPorch |-> Numeric(1, 3),
    ScreenPorch |-> Numeric(1, 3), PoolArea |-> Numeric(1, 3),
    PoolQC |-> Ordinal("Gd", "Ex"), Fence |-> Nominal("MnPrv", "GdWo"),
    MiscFeature |-> Nominal("Shed", "Gar2"), MiscVal |-> Numeric(1, 3),
    MoSold |-> <<Num(1), Num(6), Num(13)>>,
    SaleCondition |-> Nominal("Normal", "Abnorml"), SalePrice |-> Numeric(100, 200) ]

(* Columns in which the explored tables may hold a missing value. *)
nullable_columns == default_columns \cup {"LotArea", "Electrical"}
(* Of those, the ones whose default leaves a string next to numbers, or a  *)
(* number next to strings, in a column that also holds a present value.    *)
mixing_columns == {"HeatingQC", "CentralAir"}

Profiles == {"typ", "alt", "odd", "gaps", "missing"}
NeighborhoodValues == {"NAmes"} \cup excluded_neighborhoods
GrLivAreaValues == {1500, GrLivAreaBound, GrLivAreaBound + 1}

ProfileValue(c, profile) ==
    CASE profile = "typ" -> column_values[c][1]
      [] profile = "alt" -> column_values[c][2]
      [] profile = "odd" -> column_values[c][3]
      [] profile = "gaps" -> IF c \in nullable_columns \ mixing_columns
                             THEN NaN ELSE column_values[c][1]
      [] profile = "missing" -> IF c \in nullable_columns
                                THEN NaN ELSE column_values[c][1]

RawRow(nb, area, profile) ==
    [c \in Range(csv_columns) |->
        CASE c = "Neighborhood" -> Str(nb)
          [] c = "GrLivArea" -> Num(area)
          [] OTHER -> ProfileValue(c, profile)]

Deviations(nb, area, profile) ==
    (IF nb = "NAmes" THEN 0 ELSE 1) + (IF area = 1500 THEN 0 ELSE 1)
    + (IF profile = "typ" THEN 0 ELSE 1)

RawRows ==
    {RawRow(c[1], c[2], c[3]) :
        c \in {d \in NeighborhoodValues \X GrLivAreaValues \X Profiles :
                  Deviations(d[1], d[2], d[3]) <= 2}}

(* pd.read_csv: a column is read as object when a cell holds a string, or   *)
(* when the file has no data row; otherwise as a number (int64, float64).  *)
read_csv_dtypes(rows) ==
    [c \in Range(csv_columns) |->
        IF Len(rows) = 0 \/ \E i \in 1..Len(rows) : IsStr(rows[i][c])
        THEN "object" ELSE "number"]

RawTables ==
    {[columns |-> csv_columns, dtypes |-> read_csv_dtypes(r), rows |-> r] :
        r \in UNION {[1..n -> RawRows] : n \in 0..MaxRows}}

(***************************************************************************)
(* Cell 5: the cleaning cell.                                              *)
(***************************************************************************)
(* df.drop(labels, axis="columns"): KeyError when a label is absent. *)
drop_ignores(t, labels) == FALSE
drop_raises(t, labels) == ~(labels \subseteq Cols(t))
drop(t, labels) ==
    LET NotDropped(c) == c \notin labels
    IN [columns |-> SelectSeq(t.columns, NotDropped),
        dtypes |-> [c \in Cols(t) \ labels |-> t.dtypes[c]],
        rows |-> [i \in 1..Len(t.rows) |->
                     [c \in Cols(t) \ labels |-> t.rows[i][c]]]]

(* ~df["Neighborhood"].isin(["GrnHill", "Landmrk"]) *)
neighborhood_kept(r) ==
    ~(IsStr(r["Neighborhood"]) /\ r["Neighborhood"].s \in excluded_neighborhoods)

(* df["GrLivArea"] < 4000; a comparison with NaN is False *)
area_kept(r) == IsNum(r["GrLivArea"]) /\ r["GrLivArea"].n < GrLivAreaBound

filter_neighborhood(t) == [t EXCEPT !.rows = SelectSeq(t.rows, neighborhood_kept)]
filter_area(t) == [t EXCEPT !.rows = SelectSeq(t.rows, area_kept)]

(* The row filters, lines 2 and 3 of the cell; KeyError on an absent column. *)
filters_raise(t) == ~({"Neighborhood", "GrLivArea"} \subseteq Cols(t))
(* The table when they raise: line 2 has rebound df before line 3 raises. *)
filters_raised(t) == IF "Neighborhood" \in Cols(t) THEN filter_neighborhood(t) ELSE t
row_filters_area_only(t) == filter_area(t)
row_filters(t) == filter_area(filter_neighborhood(t))

(***************************************************************************)
(* Cells 7 and 9: replace_na and the default-fill loop.                    *)
(***************************************************************************)
fillna(v, value) == IF isna(v) THEN value ELSE v

(* df.loc[:, col] = df.loc[:, col].fillna(value) writes the filled values  *)
(* into the column (pandas 2): an object column stays object, a numeric    *)
(* column becomes object when a string was filled in.                      *)
replace_na_frame(t, col, value) ==
    [t EXCEPT !.rows = [i \in 1..Len(t.rows) |->
        [c \in Cols(t) |-> fillna(t.rows[i][c], value)]]]
replace_na(t, col, value) ==
    LET filled == [i \in 1..Len(t.rows) |-> fillna(t.rows[i][col], value)]
    IN [t EXCEPT
          !.rows = [i \in 1..Len(t.rows) |-> [t.rows[i] EXCEPT ![col] = filled[i]]],
          !.dtypes = [@ EXCEPT ![col] =
                         IF @ = "object" \/ \E i \in 1..Len(filled) : IsStr(filled[i])
                         THEN "object" ELSE "number"]]

(* The loop over items[i..]; replace_na raises KeyError on an absent       *)
(* column, after the earlier columns were filled in place.                 *)
RECURSIVE fill_loop_short(_, _, _)
fill_loop_short(t, items, i) ==
    IF i >= Len(items) THEN [ok |-> TRUE, t |-> t]
    ELSE IF items[i][1] \notin Cols(t) THEN [ok |-> FALSE, t |-> t]
    ELSE fill_loop_short(replace_na(t, items[i][1], items[i][2]), items, i + 1)

RECURSIVE fill_loop(_, _, _)
fill_loop(t, items, i) ==
    IF i > Len(items) THEN [ok |-> TRUE, t |-> t]
    ELSE IF items[i][1] \notin Cols(t) THEN [ok |-> FALSE, t |-> t]
    ELSE fill_loop(replace_na(t, items[i][1], items[i][2]), items, i + 1)

(***************************************************************************)
(* Cell 10: df.replace with the nested recoding dict.                      *)
(***************************************************************************)
recode_overlapping(c, v) ==
    IF c = "MSSubClass" /\ IsNum(v) THEN Num(v.n + 10)
    ELSE IF c \in recoded_columns /\ v \in Keys(recoding_table[c])
    THEN Lookup(recoding_table[c], v) ELSE v

recode(c, v) ==
    IF c \in recoded_columns /\ v \in Keys(recoding_table[c])
    THEN Lookup(recoding_table[c], v) ELSE v

(* A column the dictionary names has its dtype inferred again from the     *)
(* replaced values (object when a string is left), unless the table has no *)
(* row; the other columns keep theirs.                                     *)
replace_unassigned(t) == t

replace_map(t) ==
    [t EXCEPT !.rows = [i \in 1..Len(t.rows) |->
        [c \in Cols(t) |->
            IF c \in recoded_columns
            THEN (IF t.rows[i][c] \in Keys(recoding_table[c])
                  THEN Lookup(recoding_table[c], t.rows[i][c]) ELSE NaN)
            ELSE t.rows[i][c]]]]

replace(t) ==
    LET rows == [i \in 1..Len(t.rows) |->
                    [c \in Cols(t) |-> recode(c, t.rows[i][c])]]
    IN [t EXCEPT
          !.rows = rows,
          !.dtypes = [c \in Cols(t) |->
                         IF c \in recoded_columns /\ Len(rows) > 0
                         THEN IF \E i \in 1..Len(rows) : IsStr(rows[i][c])
                              THEN "object" ELSE "number"
                         ELSE t.dtypes[c]]]

(***************************************************************************)
(* Cell 12: y = df.pop("SalePrice").  Cell 13: select_dtypes.              *)
(***************************************************************************)
pop_raises(t, c) == c \notin Cols(t)
pop_unfiltered(t, c) == Column(raw, c)
pop(t, c) == Column(t, c)

(* select_dtypes goes by the dtype the column has by now, whatever cells   *)
(* the row filters have left in it.                                        *)
is_object(t, c) == t.dtypes[c] = "object"

select_dtypes_exclude_object(t) ==
    LET Sel(c) == ~is_object(t, c) IN SelectSeq(t.columns, Sel)
select_dtypes_include_object(t) ==
    LET Sel(c) == is_object(t, c) IN SelectSeq(t.columns, Sel)

(***************************************************************************)
(* IEEE 754 double arithmetic, as far as MinMaxScaler needs it.  A natural *)
(* number is the sequence of its digits in base 2^15, lowest first and     *)
(* without leading zeros.  A double is [neg, m, e] with the value          *)
(* (-1)^neg * m * 2^e, where m has exactly 53 bits, or is <<>> for zero.   *)
(* Overflow and subnormal numbers do not occur for the explored values.    *)
(***************************************************************************)
DigitBits == 15
Base == 2^DigitBits
SignificandBits == 53

RECURSIVE BigTrim(_)
BigTrim(a) ==
    IF a = <<>> THEN a
    ELSE IF a[Len(a)] = 0 THEN BigTrim(SubSeq(a, 1, Len(a) - 1)) ELSE a

RECURSIVE BigOfInt(_)
BigOfInt(k) == IF k = 0 THEN <<>> ELSE <<k % Base>> \o BigOfInt(k \div Base)

RECURSIVE BigMulCarry(_, _, _)
BigMulCarry(a, k, c) ==
    IF a = <<>> THEN BigOfInt(c)
    ELSE LET p == Head(a) * k + c
         IN <<p % Base>> \o BigMulCarry(Tail(a), k, p \div Base)
(* a * k for 0 <= k <= Base *)
BigMulSmall(a, k) == BigTrim(BigMulCarry(a, k, 0))

(* quotient and remainder of a by k, 0 < k <= Base *)
RECURSIVE BigDivRem(_, _)
BigDivRem(a, k) ==
    IF a = <<>> THEN [q |-> <<>>, r |-> 0]
    ELSE LET hi == BigDivRem(Tail(a), k)
             cur == hi.r * Base + Head(a)
         IN [q |-> <<cur \div k>> \o hi.q, r |-> cur % k]

RECURSIVE BigAddCarry(_, _, _)
BigAddCarry(a, b, c) ==
    IF a = <<>> /\ b = <<>> THEN BigOfInt(c)
    ELSE LET da == IF a = <<>> THEN 0 ELSE Head(a)
             db == IF b = <<>> THEN 0 ELSE Head(b)
             s == da + db + c
         IN <<s % Base>> \o BigAddCarry(IF a = <<>> THEN a ELSE Tail(a),
                                        IF b = <<>> THEN b ELSE Tail(b),
                                        s \div Base)
BigAdd(a, b) == BigTrim(BigAddCarry(a, b, 0))

(* a - b for a >= b *)
RECURSIVE BigSubBorrow(_, _, _)
BigSubBorrow(a, b, c) ==
    IF a = <<>> THEN <<>>
    ELSE LET db == IF b = <<>> THEN 0 ELSE Head(b)
             s == Head(a) - db - c
         IN <<IF s < 0 THEN s + Base ELSE s>>
            \o BigSubBorrow(Tail(a), IF b = <<>> THEN b ELSE Tail(b),
                            IF s < 0 THEN 1 ELSE 0)
BigSub(a, b) == BigTrim(BigSubBorrow(a, b, 0))

(* -1, 0 or 1 as a is below, equal to or above b *)
RECURSIVE BigCmp(_, _)
BigCmp(a, b) ==
    IF Len(a) # Len(b) THEN (IF Len(a) < Len(b) THEN -1 ELSE 1)
    ELSE IF a = <<>> THEN 0
    ELSE IF a[Len(a)] # b[Len(b)] THEN (IF a[Len(a)] < b[Len(b)] THEN -1 ELSE 1)
    ELSE BigCmp(SubSeq(a, 1, Len(a) - 1), SubSeq(b, 1, Len(b) - 1))

BigBitLen(a) ==
    IF a = <<>> THEN 0
    ELSE DigitBits * (Len(a) - 1)
         + (CHOOSE n \in 1..DigitBits : 2^(n - 1) <= a[Len(a)] /\ a[Len(a)] < 2^n)

BigShl(a, s) ==
    IF a = <<>> THEN a
    ELSE [i \in 1..(s \div DigitBits) |-> 0] \o BigMulSmall(a, 2^(s % DigitBits))

(* floor(a / 2^s), and whether a bit was shifted out *)
BigShr(a, s) ==
    LET d == s \div DigitBits
        low == SubSeq(a, 1, IF d < Len(a) THEN d ELSE Len(a))
        dv == BigDivRem(SubSeq(a, d + 1, Len(a)), 2^(s % DigitBits))
    IN [q |-> BigTrim(dv.q),
        sticky |-> dv.r # 0 \/ \E i \in 1..Len(low) : low[i] # 0]

BigOdd(a) == a # <<>> /\ a[1] % 2 = 1

DoubleZero == [neg |-> FALSE, m |-> <<>>, e |-> 0]
DoubleOne == [neg |-> FALSE, m |-> BigShl(<<1>>, SignificandBits - 1),
              e |-> 1 - SignificandBits]

(* Round to nearest, ties to even: the double nearest to (-1)^neg * (m +   *)
(* a fraction) * 2^e, the fraction being 0, or in (0,1) when sticky.       *)
RoundNearest(neg, m, e, sticky) ==
    LET L == BigBitLen(m)
    IN IF m = <<>> THEN DoubleZero
       ELSE IF L <= SignificandBits
       THEN [neg |-> neg, m |-> BigShl(m, SignificandBits - L),
             e |-> e - (SignificandBits - L)]
       ELSE LET s == L - SignificandBits
                t == BigShr(m, s - 1)
                q == BigShr(t.q, 1).q
                up == BigOdd(t.q) /\ (t.sticky \/ sticky \/ BigOdd(q))
                q1 == IF up THEN BigAdd(q, <<1>>) ELSE q
            IN IF BigBitLen(q1) > SignificandBits
               THEN [neg |-> neg, m |-> BigShr(q1, 1).q, e |-> e + s + 1]
               ELSE [neg |-> neg, m |-> q1, e |-> e + s]

(* 1.0 / (r2 / 2), for a natural number 0 < r2 <= Base. *)
DoubleReciprocalOfHalves(r2) ==
    LET k == 5 * DigitBits
        dv == BigDivRem(BigShl(<<1>>, k + 1), r2)
    IN RoundNearest(FALSE, BigTrim(dv.q), -k, dv.r # 0)

(* (x2 / 2) * d, for a natural number x2 below Base. *)
DoubleTimesHalves(d, x2) == RoundNearest(d.neg, BigMulSmall(d.m, x2), d.e - 1, FALSE)

DoubleNeg(d) == IF d.m = <<>> THEN d ELSE [d EXCEPT !.neg = ~d.neg]

DoubleAdd(a, b) ==
    IF a.m = <<>> THEN b
    ELSE IF b.m = <<>> THEN a
    ELSE LET e == IF a.e < b.e THEN a.e ELSE b.e
             ma == BigShl(a.m, a.e - e)
             mb == BigShl(b.m, b.e - e)
             c == BigCmp(ma, mb)
         IN IF a.neg = b.neg THEN RoundNearest(a.neg, BigAdd(ma, mb), e, FALSE)
            ELSE IF c = 0 THEN DoubleZero
            ELSE IF c > 0 THEN RoundNearest(a.neg, BigSub(ma, mb), e, FALSE)
            ELSE RoundNearest(b.neg, BigSub(mb, ma), e, FALSE)

(* d <= 1.0 and d >= 0.0 *)
DoubleLeqOne(d) == d.neg \/ d.m = <<>> \/ d.e + SignificandBits <= 0 \/ d = DoubleOne
DoubleGeqZero(d) == ~d.neg \/ d.m = <<>>

(***************************************************************************)
(* Cell 14: the transformers.  Numbers are kept doubled (x2 = 2 * x) so    *)
(* that a median of an even number of values stays an integer; a scaled    *)
(* value is the double MinMaxScaler computes.                              *)
(***************************************************************************)
Min2(a, b) == IF a <= b THEN a ELSE b
SetMin(S) == CHOOSE m \in S : \A x \in S : m <= x
SetMax(S) == CHOOSE m \in S : \A x \in S : x <= m

(* SimpleImputer(strategy="median").fit on one column: the median of the   *)
(* present values; a column without any present value is dropped.          *)
Present(col) == LET NotNa(v) == ~isna(v) IN SelectSeq(col, NotNa)
median2(col) ==
    LET p == Present(col)
        s == SortSeq([i \in 1..Len(p) |-> p[i].n], LAMBDA a, b : a < b)
        m == Len(s)
    IN IF m % 2 = 1 THEN 2 * s[(m + 1) \div 2]
       ELSE s[m \div 2] + s[m \div 2 + 1]
imputer_fit(col) ==
    IF Len(Present(col)) = 0 THEN [empty |-> TRUE, median2 |-> 0]
    ELSE [empty |-> FALSE, median2 |-> median2(col)]
impute2(stat, v) == IF isna(v) THEN stat.median2 ELSE 2 * v.n

(* MinMaxScaler().fit on one imputed column: data_min_ and data_max_,      *)
(* scale_ = 1 / data_range with a zero data_range replaced by 1, and       *)
(* min_ = 0 - data_min_ * scale_, each operation rounded to a double.      *)
scaler_fit(col2) ==
    LET min2 == SetMin(Range(col2))
        max2 == SetMax(Range(col2))
        scale_ == IF max2 = min2 THEN DoubleOne
                  ELSE DoubleReciprocalOfHalves(max2 - min2)
    IN [min2 |-> min2, max2 |-> max2, scale_ |-> scale_,
        min_ |-> DoubleAdd(DoubleZero, DoubleNeg(DoubleTimesHalves(scale_, min2)))]
(* MinMaxScaler.transform: X * scale_ + min_, in doubles. *)
scale(sc, x2) == DoubleAdd(DoubleTimesHalves(sc.scale_, x2), sc.min_)

numerical_fit(col) ==
    LET stat == imputer_fit(col)
    IN IF stat.empty
       THEN [empty |-> TRUE, median2 |-> 0, min2 |-> 0, max2 |-> 0,
             scale_ |-> DoubleOne, min_ |-> DoubleZero]
       ELSE LET sc == scaler_fit([i \in 1..Len(col) |-> impute2(stat, col[i])])
            IN [empty |-> FALSE, median2 |-> stat.median2,
                min2 |-> sc.min2, max2 |-> sc.max2,
                scale_ |-> sc.scale_, min_ |-> sc.min_]
numerical_transform(f, v) == scale(f, impute2(f, v))

(* numerical_pipeline.fit on a block of columns: the imputer drops every   *)
(* column without an observed value, and MinMaxScaler.fit rejects a block  *)
(* left with no column at all (ValueError, 0 features).  An empty block is *)
(* never handed to the pipeline.                                           *)
numerical_fit_raises(cols) ==
    /\ Len(cols) > 0
    /\ \A j \in 1..Len(cols) : imputer_fit(cols[j]).empty

(* OneHotEncoder.fit on one column: categories_ is the sorted distinct     *)
(* values (strings, or numbers), a missing value last; a column mixing     *)
(* strings and numbers is rejected with TypeError.                         *)
onehot_raises(col) ==
    (\E i \in 1..Len(col) : IsStr(col[i])) /\ (\E i \in 1..Len(col) : IsNum(col[i]))
RECURSIVE SortedSeq(_)
SortedSeq(S) == IF S = {} THEN <<>>
                ELSE <<SetMin(S)>> \o SortedSeq(S \ {SetMin(S)})
categories(col) ==
    LET seen == Range(col)
        Seen(x) == Str(x) \in seen
        strs == SelectSeq(StrOrder, Seen)
        nums == SortedSeq({v.n : v \in {w \in seen : IsNum(w)}})
    IN [i \in 1..Len(strs) |-> Str(strs[i])]
       \o [i \in 1..Len(nums) |-> Num(nums[i])]
       \o (IF NaN \in seen THEN <<NaN>> ELSE <<>>)
(* OneHotEncoder.transform of one value, drop="first": one indicator per   *)
(* category but the first; handle_unknown="ignore" gives all zeros.        *)
onehot_transform_no_drop(cats, v) ==
    [j \in 1..Len(cats) |-> IF v = cats[j] THEN 1 ELSE 0]

onehot_transform(cats, v) ==
    [j \in 1..(IF Len(cats) = 0 THEN 0 ELSE Len(cats) - 1) |->
        IF v = cats[j + 1] THEN 1 ELSE 0]

RECURSIVE Flatten(_)
Flatten(ss) == IF Len(ss) = 0 THEN <<>> ELSE Head(ss) \o Flatten(Tail(ss))

Whole(k) == IF k = 0 THEN DoubleZero ELSE DoubleOne

(* column_transformer.fit(df, y): the numerical pipeline is fitted first,  *)
(* then the categorical one, and the first error ends the call.            *)
fit_raises(t, num, cat) ==
    \/ Len(t.rows) = 0
    \/ numerical_fit_raises([j \in 1..Len(num) |-> Column(t, num[j])])
    \/ \E j \in 1..Len(cat) : onehot_raises(Column(t, cat[j]))
fit_error(t, num) ==
    IF \/ Len(t.rows) = 0
       \/ numerical_fit_raises([j \in 1..Len(num) |-> Column(t, num[j])])
    THEN "ValueError" ELSE "TypeError"
fit(t, num, cat) ==
    [fitted |-> TRUE,
     numerical |-> [j \in 1..Len(num) |->
                       [col |-> num[j], f |-> numerical_fit(Column(t, num[j]))]],
     categorical |-> [j \in 1..Len(cat) |->
                       [col |-> cat[j], cats |-> categories(Column(t, cat[j]))]]]

(* get_feature_names_out: the numeric block, then the one-hot block. *)
feature_names(ct) ==
    LET Kept(e) == ~e.f.empty
        kept == SelectSeq(ct.numerical, Kept)
    IN [j \in 1..Len(kept) |-> [block |-> "numerical", col |-> kept[j].col, cat |-> NaN]]
       \o Flatten([j \in 1..Len(ct.categorical) |->
             [k \in 1..(IF Len(ct.categorical[j].cats) = 0 THEN 0
                        ELSE Len(ct.categorical[j].cats) - 1) |->
                 [block |-> "categorical", col |-> ct.categorical[j].col,
                  cat |-> ct.categorical[j].cats[k + 1]]]])

(* Cell 15: column_transformer.transform(df), one matrix row per table row. *)
transform_row(ct, r) ==
    LET Kept(e) == ~e.f.empty
        kept == SelectSeq(ct.numerical, Kept)
    IN [j \in 1..Len(kept) |-> numerical_transform(kept[j].f, r[kept[j].col])]
       \o Flatten([j \in 1..Len(ct.categorical) |->
             LET oh == onehot_transform(ct.categorical[j].cats, r[ct.categorical[j].col])
             IN [k \in 1..Len(oh) |-> Whole(oh[k])]])
transform(ct, t) ==
    [columns |-> feature_names(ct),
     rows |-> [i \in 1..Len(t.rows) |-> transform_row(ct, t.rows[i])]]

(***************************************************************************)
(* Cell 17: display_test.  Text is kept as its lines.                      *)
(***************************************************************************)
indent == "    "

zip_first_name(names, score) ==
    [i \in 1..Min2(Len(names), Len(score)) |-> <<names[1], score[i]>>]

zip(names, score) ==
    [i \in 1..Min2(Len(names), Len(score)) |-> <<names[i], score[i]>>]

(* The text display_test builds: the title line and one line per pair. *)
display_text(title, stats_names, score) ==
    LET pairs == zip(stats_names, score)
    IN <<title \o " test:">>
       \o [i \in 1..Len(pairs) |->
              indent \o pairs[i][1] \o ": " \o ToString(pairs[i][2])]

(* What display_test has printed when test(model) raises: the call is the  *)
(* first statement, the text is built and printed after it.                *)
display_test_raised(title) == <<>>

(* print(text) for a text ending in a newline: its lines and an empty one. *)
print(lines) == lines \o <<"">>

(***************************************************************************)
(* Cells 18-31: the OLS fit and the diagnostics.  The tests are library    *)
(* routines: whether one raises is not decided here, except that           *)
(* het_breuschpagan rejects a design without a non-zero constant column    *)
(* among at least two columns.                                             *)
(***************************************************************************)
OLS_fit(endog, exog) == [fitted |-> TRUE, endog |-> endog, exog |-> exog]

constant_nonzero(x, j) ==
    /\ \A i \in 1..Len(x.rows) : x.rows[i][j] = x.rows[1][j]
    /\ x.rows[1][j] # DoubleZero
has_constant(x) ==
    /\ Len(x.columns) >= 2
    /\ \E j \in 1..Len(x.columns) : constant_nonzero(x, j)

rainbow_names == <<"score", "p-value">>
harvey_collier_names == <<"score", "p-value">>
jarque_bera_names == <<"score", "p-value", "skew", "kurtosis">>
breusch_pagan_names == <<"LM score", "LM p-value", "F score", "F p-value">>

(* The statistics a test returns, as tokens standing for its floats. *)
Returned(n) == [i \in 1..n |-> i]
error_message(title) == "error raised by the " \o title \o " test"
breusch_pagan_message ==
    "The Breusch-Pagan test requires exog to have at least two columns where one is a constant."

(***************************************************************************)
(* The run.                                                                *)
(***************************************************************************)
NoTable == [columns |-> <<>>, dtypes |-> <<>>, rows |-> <<>>]
NoFit == [fitted |-> FALSE]

Init ==
    /\ raw \in RawTables
    /\ df = raw
    /\ pc = "clean"
    /\ y = <<>>
    /\ numerical_features = <<>>
    /\ categorical_features = <<>>
    /\ column_transformer = NoFit
    /\ model = NoFit
    /\ out = <<>>
    /\ err = ""
    /\ attempted = {}
    /\ raised = {}
    /\ cleaned = NoTable
    /\ arg = <<>>
    /\ res = <<>>

Abort(e) == pc' = "aborted" /\ err' = e

CleanCell ==
    /\ pc = "clean"
    /\ IF drop_raises(df, id_columns)
       THEN Abort("KeyError") /\ df' = df
       ELSE IF filters_raise(drop(df, id_columns))
       THEN Abort("KeyError") /\ df' = filters_raised(drop(df, id_columns))
       ELSE /\ df' = row_filters(drop(df, id_columns))
            /\ pc' = "fill"
            /\ err' = err
    /\ UNCHANGED <<raw, y, numerical_features, categorical_features,
                   column_transformer, model, out, attempted, raised, cleaned, arg, res>>

FillCell ==
    /\ pc = "fill"
    /\ LET r == fill_loop(df, default_values, 1)
       IN /\ df' = r.t
          /\ IF r.ok THEN pc' = "recode" /\ err' = err ELSE Abort("KeyError")
    /\ UNCHANGED <<raw, y, numerical_features, categorical_features,
                   column_transformer, model, out, attempted, raised, cleaned, arg, res>>

RecodeCell ==
    /\ pc = "recode"
    /\ df' = replace(df)
    /\ pc' = "pop"
    /\ UNCHANGED <<raw, y, numerical_features, categorical_features,
                   column_transformer, model, out, err, attempted, raised, cleaned, arg, res>>

PopCell ==
    /\ pc = "pop"
    /\ IF pop_raises(df, "SalePrice")
       THEN Abort("KeyError") /\ UNCHANGED <<df, y>>
       ELSE /\ y' = pop(df, "SalePrice")
            /\ df' = drop(df, {"SalePrice"})
            /\ pc' = "dtypes"
            /\ err' = err
    /\ UNCHANGED <<raw, numerical_features, categorical_features,
                   column_transformer, model, out, attempted, raised, cleaned, arg, res>>

DtypesCell ==
    /\ pc = "dtypes"
    /\ numerical_features' = select_dtypes_exclude_object(df)
    /\ categorical_features' = select_dtypes_include_object(df)
    /\ pc' = "fit"
    /\ UNCHANGED <<raw, df, y, column_transformer, model, out, err, attempted,
                   raised, cleaned, arg, res>>

FitCell ==
    /\ pc = "fit"
    /\ IF fit_raises(df, numerical_features, categorical_features)
       THEN /\ Abort(fit_error(df, numerical_features))
            /\ column_transformer' = column_transformer
       ELSE /\ column_transformer' = fit(df, numerical_features, categorical_features)
            /\ pc' = "transform"
            /\ err' = err
    /\ UNCHANGED <<raw, df, y, numerical_features, categorical_features, model,
                   out, attempted, raised, cleaned, arg, res>>

TransformCell ==
    /\ pc = "transform"
    /\ df' = transform(column_transformer, df)
    /\ pc' = "ols"
    /\ UNCHANGED <<raw, y, numerical_features, categorical_features,
                   column_transformer, model, out, err, attempted, raised, cleaned, arg, res>>

OLSCell ==
    /\ pc = "ols"
    /\ model' = OLS_fit(y, df)
    /\ pc' = "rainbow"
    /\ UNCHANGED <<raw, df, y, numerical_features, categorical_features,
                   column_transformer, out, err, attempted, raised, cleaned, arg, res>>

(* Cell 21: display_test(model, 'Rainbow', ...) with no try around it. *)
RainbowCell ==
    /\ pc = "rainbow"
    /\ attempted' = attempted \cup {"Rainbow"}
    /\ \E raises \in BOOLEAN :
          IF raises
          THEN /\ Abort("Exception")
            /\ out' = out \o display_test_raised("Rainbow")
            /\ raised' = raised \cup {"Rainbow"}
          ELSE /\ out' = out \o print(display_text("Rainbow", rainbow_names, Returned(2)))
               /\ pc' = "harvey_collier"
               /\ err' = err
               /\ raised' = raised
    /\ UNCHANGED <<raw, df, y, numerical_features, categorical_features,
                   column_transformer, model, cleaned, arg, res>>

(* Cells 24, 26, 29: try: display_test(...) except Exception as e: print(e) *)
TriedTest(title, names, n, must_raise, next) ==
    /\ attempted' = attempted \cup {title}
    /\ \E raises \in (IF must_raise THEN {TRUE} ELSE BOOLEAN) :
          /\ out' = out \o (IF raises
                            THEN display_test_raised(title)
                                 \o <<IF must_raise THEN breusch_pagan_message
                                      ELSE error_message(title)>>
                            ELSE print(display_text(title, names, Returned(n))))
          /\ raised' = (IF raises THEN raised \cup {title} ELSE raised)
    /\ pc' = next
    /\ UNCHANGED <<raw, df, y, numerical_features, categorical_features,
                   column_transformer, model, err, cleaned, arg, res>>

HarveyCollierCell ==
    /\ pc = "harvey_collier"
    /\ TriedTest("Harvey Collier", harvey_collier_names, 2, FALSE, "jarque_bera")

JarqueBeraCell ==
    /\ pc = "jarque_bera"
    /\ TriedTest("Jarque-Bera", jarque_bera_names, 4, FALSE, "breusch_pagan")

BreuschPaganCell ==
    /\ pc = "breusch_pagan"
    /\ TriedTest("Breusch-Pagan", breusch_pagan_names, 4,
                 ~has_constant(model.exog), "condition_number")

(* Cell 31: model.condition_number *)
ConditionNumberCell ==
    /\ pc = "condition_number"
    /\ attempted' = attempted \cup {"condition_number"}
    /\ pc' = "done"
    /\ UNCHANGED <<raw, df, y, numerical_features, categorical_features,
                   column_transformer, model, out, err, raised, cleaned, arg, res>>

Next ==
    \/ CleanCell \/ FillCell \/ RecodeCell \/ PopCell \/ DtypesCell
    \/ FitCell \/ TransformCell \/ OLSCell
    \/ RainbowCell \/ HarveyCollierCell \/ JarqueBeraCell \/ BreuschPaganCell
    \/ ConditionNumberCell

Spec == Init /\ [][Next]_vars

(***************************************************************************)
(* Re-running the cleaner.  After the first pass has produced the cleaned  *)
(* table, the cleaning statements are applied to it once more, either      *)
(* from the first line of cell 5 (the drop) or from its row filters.       *)
(***************************************************************************)
RerunUnchanged ==
    UNCHANGED <<raw, y, numerical_features, categorical_features,
                column_transformer, model, out, attempted, raised, arg, res>>

RerunStart ==
    /\ pc = "pop"
    /\ cleaned' = df
    /\ pc' \in {"re_drop", "re_filters"}
    /\ UNCHANGED <<df, err>>
    /\ RerunUnchanged

RerunDrop ==
    /\ pc = "re_drop"
    /\ IF drop_raises(df, id_columns)
       THEN Abort("KeyError") /\ df' = df
       ELSE df' = drop(df, id_columns) /\ pc' = "re_filters" /\ err' = err
    /\ UNCHANGED cleaned
    /\ RerunUnchanged

RerunFilters ==
    /\ pc = "re_filters"
    /\ IF filters_raise(df)
       THEN Abort("KeyError") /\ df' = filters_raised(df)
       ELSE df' = row_filters(df) /\ pc' = "re_fill" /\ err' = err
    /\ UNCHANGED cleaned
    /\ RerunUnchanged

RerunFill ==
    /\ pc = "re_fill"
    /\ LET r == fill_loop(df, default_values, 1)
       IN /\ df' = r.t
          /\ IF r.ok THEN pc' = "re_recode" /\ err' = err ELSE Abort("KeyError")
    /\ UNCHANGED cleaned
    /\ RerunUnchanged

RerunRecode ==
    /\ pc = "re_recode"
    /\ df' = replace(df)
    /\ pc' = "re_done"
    /\ UNCHANGED <<cleaned, err>>
    /\ RerunUnchanged

NextRerun ==
    \/ CleanCell \/ FillCell \/ RecodeCell
    \/ RerunStart \/ RerunDrop \/ RerunFilters \/ RerunFill \/ RerunRecode

SpecRerun == Init /\ [][NextRerun]_vars

(***************************************************************************)
(* Studies of the transformer's two column functions and of display_test   *)
(* on inputs of their own.                                                 *)
(***************************************************************************)
Idle ==
    /\ raw = NoTable
    /\ df = NoTable
    /\ y = <<>>
    /\ numerical_features = <<>>
    /\ categorical_features = <<>>
    /\ column_transformer = NoFit
    /\ model = NoFit
    /\ out = <<>>
    /\ err = ""
    /\ attempted = {}
    /\ raised = {}
    /\ cleaned = NoTable
    /\ res = <<>>

SeqsUpTo(S, lo, hi) == UNION {[1..n -> S] : n \in lo..hi}

CategoryValues == {Str("N"), Str("P"), Str("Y"), NaN}
NumberValues == {NaN} \cup {Num(k) : k \in 0..MaxNum}
StatNames == {"score", "p-value"}
StatValues == {0, 1}

InitOneHot ==
    /\ Idle
    /\ pc = "onehot"
    /\ arg \in [fit : SeqsUpTo(CategoryValues, 1, MaxLen), x : CategoryValues]

InitNumeric ==
    /\ Idle
    /\ pc = "numeric"
    /\ arg \in [fit : SeqsUpTo(NumberValues, 1, MaxLen)]

InitDisplay ==
    /\ Idle
    /\ pc = "display"
    /\ arg \in [title : {"Rainbow", "Jarque-Bera"},
                names : SeqsUpTo(StatNames, 0, MaxStats),
                score : SeqsUpTo(StatValues, 0, MaxStats)]

StudyUnchanged ==
    UNCHANGED <<raw, df, y, numerical_features, categorical_features,
                column_transformer, model, attempted, raised, cleaned, arg>>

(* one_hot_encoder fitted on arg.fit and applied to the value arg.x *)
OneHotApply ==
    /\ pc = "onehot"
    /\ res' = [cats |-> categories(arg.fit),
               row |-> onehot_transform(categories(arg.fit), arg.x)]
    /\ pc' = "onehot_done"
    /\ UNCHANGED <<out, err>>
    /\ StudyUnchanged

(* numerical_pipeline fitted on arg.fit and applied to arg.fit *)
NumericApply ==
    /\ pc = "numeric"
    /\ IF numerical_fit_raises(<<arg.fit>>)
       THEN Abort("ValueError") /\ res' = res
       ELSE /\ LET f == numerical_fit(arg.fit)
               IN res' = [empty |-> f.empty,
                          col |-> [i \in 1..Len(arg.fit) |->
                                      numerical_transform(f, arg.fit[i])]]
            /\ pc' = "numeric_done"
            /\ err' = err
    /\ UNCHANGED out
    /\ StudyUnchanged

(* display_test(model, arg.title, arg.names, test) where test returns      *)
(* arg.score or raises.                                                    *)
DisplayCall ==
    /\ pc = "display"
    /\ \E raises \in BOOLEAN :
          IF raises
          THEN Abort("Exception") /\ out' = out \o display_test_raised(arg.title)
          ELSE /\ out' = out \o print(display_text(arg.title, arg.names, arg.score))
               /\ pc' = "display_done"
               /\ err' = err
    /\ res' = res
    /\ StudyUnchanged

(* The pipeline together with the two column functions it is built from. *)
InitFeatures == (Init /\ arg = <<>>) \/ InitOneHot \/ InitNumeric
NextFeatures == Next \/ OneHotApply \/ NumericApply
SpecFeatures == InitFeatures /\ [][NextFeatures]_vars

NextDisplay == DisplayCall
SpecDisplay == InitDisplay /\ [][NextDisplay]_vars

(***************************************************************************)
(* The diagnostics in any order.  Cells 21 to 31 only read the fitted      *)
(* model, so the five diagnostic cells are run here in every order.  What  *)
(* statsmodels returns for a test is a function of the fitted model: arg   *)
(* holds the tests that raise on the model that was fitted.  The tables    *)
(* are those whose rows pass both filters and hold no missing value.       *)
(***************************************************************************)
OrderTables ==
    {t \in RawTables :
        \A i \in 1..Len(t.rows) :
            t.rows[i] \in {RawRow("NAmes", 1500, "typ"), RawRow("NAmes", 1500, "alt")}}

InitOrder == Init /\ raw \in OrderTables

OrderStart ==
    /\ pc = "rainbow"
    /\ pc' = "any_order"
    /\ arg' \in SUBSET {"Rainbow", "Harvey Collier", "Jarque-Bera"}
    /\ UNCHANGED <<raw, df, y, numerical_features, categorical_features,
                   column_transformer, model, out, err, attempted, raised, cleaned, res>>

OrderRainbow ==
    /\ pc = "any_order"
    /\ "Rainbow" \notin attempted
    /\ attempted' = attempted \cup {"Rainbow"}
    /\ IF "Rainbow" \in arg
       THEN /\ Abort("Exception")
            /\ out' = out \o display_test_raised("Rainbow")
            /\ raised' = raised \cup {"Rainbow"}
       ELSE /\ out' = out \o print(display_text("Rainbow", rainbow_names, Returned(2)))
            /\ UNCHANGED <<pc, err, raised>>
    /\ UNCHANGED <<raw, df, y, numerical_features, categorical_features,
                   column_transformer, model, cleaned, arg, res>>

OrderTried(title, names, n, must_raise) ==
    /\ title \notin attempted
    /\ TriedTest(title, names, n, must_raise, "any_order")
    /\ (title \in raised') = (must_raise \/ title \in arg)

OrderHarveyCollier ==
    /\ pc = "any_order"
    /\ OrderTried("Harvey Collier", harvey_collier_names, 2, FALSE)

OrderJarqueBera ==
    /\ pc = "any_order"
    /\ OrderTried("Jarque-Bera", jarque_bera_names, 4, FALSE)

OrderBreuschPagan ==
    /\ pc = "any_order"
    /\ OrderTried("Breusch-Pagan", breusch_pagan_names, 4, ~has_constant(model.exog))

OrderConditionNumber ==
    /\ pc = "any_order"
    /\ "condition_number" \notin attempted
    /\ attempted' = attempted \cup {"condition_number"}
    /\ UNCHANGED <<pc, raw, df, y, numerical_features, categorical_features,
                   column_transformer, model, out, err, raised, cleaned, arg, res>>

NextOrder ==
    \/ CleanCell \/ FillCell \/ RecodeCell \/ PopCell \/ DtypesCell
    \/ FitCell \/ TransformCell \/ OLSCell
    \/ OrderStart \/ OrderRainbow \/ OrderHarveyCollier \/ OrderJarqueBera
    \/ OrderBreuschPagan \/ OrderConditionNumber

SpecOrder == InitOrder /\ [][NextOrder]_vars

(***************************************************************************)
(* The default fill in another order.  Cell 9 iterates the dictionary in   *)
(* its own order; here the loop runs over the same items rearranged, and   *)
(* replace_na is also applied for one item alone.  res keeps the table the *)
(* fill started from, arg the order (or the single item) that was used.    *)
(***************************************************************************)
FillTables ==
    {t \in RawTables :
        \A i \in 1..Len(t.rows) :
            \E profile \in Profiles : t.rows[i] = RawRow("NAmes", 1500, profile)}

InitFillOrder == Init /\ raw \in FillTables

NoItems == Len(default_values)
Identity == [i \in 1..NoItems |-> i]
Reversed == [i \in 1..NoItems |-> NoItems + 1 - i]
Swapped(k) == [i \in 1..NoItems |-> IF i = k THEN k + 1 ELSE IF i = k + 1 THEN k ELSE i]
Rotated(k) == [i \in 1..NoItems |-> ((i + k - 1) % NoItems) + 1]
FillOrders ==
    {Identity, Reversed} \cup {Swapped(k) : k \in 1..(NoItems - 1)}
                         \cup {Rotated(k) : k \in 1..(NoItems - 1)}
Rearranged(order) == [i \in 1..NoItems |-> default_values[order[i]]]

FillInOrder ==
    /\ pc = "fill"
    /\ \E order \in FillOrders :
          LET r == fill_loop(df, Rearranged(order), 1)
          IN /\ df' = r.t
             /\ arg' = order
             /\ IF r.ok THEN pc' = "order_filled" /\ err' = err ELSE Abort("KeyError")
    /\ res' = df
    /\ UNCHANGED <<raw, y, numerical_features, categorical_features,
                   column_transformer, model, out, attempted, raised, cleaned>>

FillOneColumn ==
    /\ pc = "fill"
    /\ \E k \in 1..NoItems :
          /\ df' = replace_na(df, default_values[k][1], default_values[k][2])
          /\ arg' = <<k>>
    /\ res' = df
    /\ pc' = "one_filled"
    /\ UNCHANGED <<raw, y, numerical_features, categorical_features,
                   column_transformer, model, out, err, attempted, raised, cleaned>>

NextFillOrder == CleanCell \/ FillInOrder \/ FillOneColumn

SpecFillOrder == InitFillOrder /\ [][NextFillOrder]_vars

(***************************************************************************)
(* Input tables that lack a column.  The notebook is run on a CSV file     *)
(* from which one of the columns the cleaning cells name has been left     *)
(* out; arg holds that column, and is empty for a complete table.          *)
(***************************************************************************)
filter_columns == {"Neighborhood", "GrLivArea"}
named_columns == id_columns \cup filter_columns \cup default_columns \cup {"SalePrice"}

MissingTables ==
    {t \in RawTables :
        \A i \in 1..Len(t.rows) :
            \/ t.rows[i] = RawRow("GrnHill", 1500, "typ")
            \/ \E profile \in Profiles : t.rows[i] = RawRow("NAmes", 1500, profile)}

InitMissing ==
    /\ \E t \in MissingTables :
          \/ raw = t /\ arg = <<>>
          \/ \E c \in named_columns : raw = drop(t, {c}) /\ arg = <<c>>
    /\ df = raw
    /\ pc = "clean"
    /\ y = <<>>
    /\ numerical_features = <<>>
    /\ categorical_features = <<>>
    /\ column_transformer = NoFit
    /\ model = NoFit
    /\ out = <<>>
    /\ err = ""
    /\ attempted = {}
    /\ raised = {}
    /\ cleaned = NoTable
    /\ res = <<>>

SpecMissing == InitMissing /\ [][Next]_vars




(***************************************************************************)
(* Stages of the run, read off pc.  A run that ends in the fit cell leaves *)
(* df holding the cleaned table.                                           *)
(***************************************************************************)
Diagnostics ==
    {"Rainbow", "Harvey Collier", "Jarque-Bera", "Breusch-Pagan", "condition_number"}
FitAborted == pc = "aborted" /\ err \in {"TypeError", "ValueError"}
AfterClean == pc \in {"fill", "recode", "pop", "dtypes", "fit", "transform"} \/ FitAborted
AfterFill == pc \in {"recode", "pop", "dtypes", "fit", "transform"} \/ FitAborted
AfterRecode == pc \in {"pop", "dtypes", "fit", "transform"} \/ FitAborted

(* The indices of the raw rows the two row filters keep, in order. *)
Survivors(t) ==
    LET Kept(i) == neighborhood_kept(t.rows[i]) /\ area_kept(t.rows[i])
    IN SelectSeq([i \in 1..Len(t.rows) |-> i], Kept)

(***************************************************************************)
(* C1: when one of the four tests raises, the error does not leave its     *)
(* invocation, its message is printed, and every later diagnostic (the     *)
(* remaining tests and the condition number) is still attempted.           *)
(***************************************************************************)
C1_TestErrorsContained ==
    /\ raised # {} => pc # "aborted"
    /\ \A d \in raised \ {"Breusch-Pagan"} : error_message(d) \in Range(out)
    /\ "Breusch-Pagan" \in raised => breusch_pagan_message \in Range(out)
    /\ (pc \in {"done", "aborted"} /\ raised # {}) => attempted = Diagnostics

(***************************************************************************)
(* C2: every row of the cleaned table has a Neighborhood outside the       *)
(* excluded set and a GrLivArea that does not exceed 4000.                 *)
(***************************************************************************)
C2_CleanedRowsValid ==
    AfterClean =>
        \A i \in 1..Len(df.rows) :
            /\ ~(IsStr(df.rows[i]["Neighborhood"])
                 /\ df.rows[i]["Neighborhood"].s \in {"GrnHill", "Landmrk"})
            /\ ~(IsNum(df.rows[i]["GrLivArea"]) /\ df.rows[i]["GrLivArea"].n > 4000)

C2_Witness ==
    /\ AfterRecode
    /\ Len(df.rows) = 1
    /\ Len(raw.rows) = 2
    /\ \E i \in 1..2 : raw.rows[i]["Neighborhood"] = Str("GrnHill")
                       /\ raw.rows[i]["GrLivArea"] = Num(1500)

(***************************************************************************)
(* C3: once the default-fill loop has run, no column of the default-value  *)
(* table holds a missing value in any remaining row; this still holds      *)
(* after recoding and when the transformer is fitted.                      *)
(***************************************************************************)
C3_NoMissingInDefaultColumns ==
    AfterFill =>
        \A i \in 1..Len(df.rows) : \A c \in default_columns : df.rows[i][c] # NaN

C3_Witness ==
    /\ pc = "fit"
    /\ Len(raw.rows) = 2
    /\ Len(df.rows) = 2
    /\ \A c \in default_columns : raw.rows[1][c] = NaN

(***************************************************************************)
(* C4: a row whose LotFrontage and Alley are both missing in the raw input *)
(* reads the number 0 in LotFrontage and the integer 0 in Alley in the     *)
(* cleaned table (missing -> "None" -> 0).                                 *)
(***************************************************************************)
C4_MissingFrontageAndAlley ==
    AfterRecode =>
        LET s == Survivors(raw)
        IN \A k \in 1..Len(df.rows) :
              (raw.rows[s[k]]["LotFrontage"] = NaN /\ raw.rows[s[k]]["Alley"] = NaN)
              => (df.rows[k]["LotFrontage"] = Num(0) /\ df.rows[k]["Alley"] = Num(0))

C4_Witness ==
    /\ pc = "pop"
    /\ Len(df.rows) = 2
    /\ raw.rows[2]["LotFrontage"] = NaN
    /\ raw.rows[2]["Alley"] = NaN
    /\ raw.rows[1]["Alley"] # NaN

(***************************************************************************)
(* C6: recoding maps a cell exactly when its column has a sub-table and    *)
(* its value is a key of it; every other cell, the columns and the rows    *)
(* (their number and order) stay as they were.                             *)
(***************************************************************************)
C6_RecodeFrame ==
    [][pc = "recode" =>
        /\ df'.columns = df.columns
        /\ Len(df'.rows) = Len(df.rows)
        /\ \A i \in 1..Len(df.rows) : \A c \in Range(df.columns) :
              LET v == df.rows[i][c]
                  hits == IF c \in DOMAIN recoding_table
                          THEN {p \in recoding_table[c] : p[1] = v} ELSE {}
              IN IF hits = {} THEN df'.rows[i][c] = v
                 ELSE \A p \in hits : df'.rows[i][c] = p[2]]_vars

C6_Witness ==
    /\ pc = "pop"
    /\ Len(df.rows) = 2
    /\ df.rows[1]["Alley"] = Str("Unk")
    /\ df.rows[2]["Alley"] = Num(1)
    /\ df.rows[2]["MSSubClass"] = Str("SC20")
    /\ df.rows[1]["MSSubClass"] = Num(25)

(***************************************************************************)
(* C10: every raw row whose Neighborhood is not excluded and whose         *)
(* GrLivArea is at most 4000, 4000 included, is in the cleaned table, and  *)
(* the retained rows keep their relative order.                            *)
(***************************************************************************)
C10_KeepsRowsUpToBound ==
    pc = "fill" =>
        LET Claimed(r) == /\ r["Neighborhood"].s \notin {"GrnHill", "Landmrk"}
                          /\ r["GrLivArea"].n <= 4000
            kept == SelectSeq(raw.rows, Claimed)
        IN /\ Len(df.rows) = Len(kept)
           /\ \A k \in 1..Len(df.rows) : \A c \in Range(df.columns) :
                 df.rows[k][c] = kept[k][c]

(***************************************************************************)
(* C5 as stated: applying the cleaner's steps, the identifier-column drop  *)
(* included, a second time to the table it produced completes without      *)
(* error and yields that table again.                                      *)
(***************************************************************************)
C5_RerunCompletesIdentical ==
    /\ cleaned # NoTable => pc # "aborted"
    /\ pc = "re_done" => df = cleaned

(***************************************************************************)
(* C5 amended: re-applying the two row filters, the default fill and the   *)
(* recoding to the cleaned table completes without error and yields that   *)
(* table again; the only step that fails on the cleaned table is the       *)
(* identifier-column drop, which raises KeyError and leaves the table as   *)
(* it was.                                                                 *)
(***************************************************************************)
C5_RerunWithoutDropIdentical ==
    /\ pc \in {"re_fill", "re_recode", "re_done"} => (err = "" /\ df = cleaned)
    /\ (pc = "aborted" /\ cleaned # NoTable) =>
          (err = "KeyError" /\ df = cleaned /\ ~({"Order", "PID"} \subseteq Range(df.columns)))

C5_Witness ==
    /\ pc = "re_done"
    /\ Len(df.rows) = 2
    /\ raw.rows[1]["Alley"] = NaN
    /\ raw.rows[2]["MSSubClass"] = Num(20)
    /\ df.rows[1]["Alley"] = Num(0)

(***************************************************************************)
(* C7: a categorical column with k distinct categories at fit time gives   *)
(* exactly k-1 indicators with values in {0,1}; at most one is 1 in a row; *)
(* all are 0 exactly when the row's value is the dropped first level or    *)
(* was not seen at fit time.                                               *)
(***************************************************************************)
Position(v) == IF v = NaN THEN Len(StrOrder) + 1
               ELSE IF IsNum(v) THEN v.n - 2^20
               ELSE CHOOSE i \in 1..Len(StrOrder) : StrOrder[i] = v.s
FirstLevel(col) == CHOOSE v \in Range(col) : \A w \in Range(col) : Position(v) <= Position(w)

MatrixStage ==
    \/ pc \in {"ols", "rainbow", "harvey_collier", "jarque_bera", "breusch_pagan",
               "condition_number", "done"}
    \/ (pc = "aborted" /\ err = "Exception")

OneHotRowOK(fitcol, x, row) ==
    /\ Len(row) = Cardinality(Range(fitcol)) - 1
    /\ \A j \in 1..Len(row) : row[j] \in {0, 1}
    /\ Cardinality({j \in 1..Len(row) : row[j] = 1}) <= 1
    /\ (\A j \in 1..Len(row) : row[j] = 0)
          <=> (x = FirstLevel(fitcol) \/ x \notin Range(fitcol))

(* The indicators of source column c in matrix row r, as numbers. *)
Indicators(x, r, c) ==
    LET Mine(j) == x.columns[j].block = "categorical" /\ x.columns[j].col = c
        idx == SelectSeq([j \in 1..Len(x.columns) |-> j], Mine)
    IN [k \in 1..Len(idx) |-> IF r[idx[k]] = DoubleZero THEN 0
                               ELSE IF r[idx[k]] = DoubleOne THEN 1 ELSE 2]

C7_OneHotBlock ==
    /\ [](pc = "onehot_done" => OneHotRowOK(arg.fit, arg.x, res.row))
    /\ [][pc = "transform" =>
            \A c \in Range(categorical_features) : \A i \in 1..Len(df.rows) :
               OneHotRowOK(Column(df, c), df.rows[i][c],
                           Indicators(df', df'.rows[i], c))]_vars

C7_Witness ==
    /\ pc = "onehot_done"
    /\ Cardinality(Range(arg.fit)) = 3
    /\ arg.x \notin Range(arg.fit)
    /\ Len(res.row) = 2

(***************************************************************************)
(* C8: fitted on and applied to the same table, every value of every       *)
(* numeric output column lies in [0,1], also for a constant column and     *)
(* for a column that had missing entries before median imputation.         *)
(***************************************************************************)
InUnit(d) == DoubleGeqZero(d) /\ DoubleLeqOne(d)

C8_NumericInUnitInterval ==
    /\ pc = "numeric_done" => \A i \in 1..Len(res.col) : InUnit(res.col[i])
    /\ MatrixStage =>
          \A i \in 1..Len(df.rows) : \A j \in 1..Len(df.columns) :
             df.columns[j].block = "numerical" => InUnit(df.rows[i][j])

(***************************************************************************)
(* C9 as stated: a successful display_test prints the title line, one      *)
(* indented "name: value" line for every statistic the test returned, the  *)
(* i-th value with the i-th name, then a blank line, for any name list     *)
(* and any number of returned statistics.                                  *)
(***************************************************************************)
StatLine(name, value) == "    " \o name \o ": " \o ToString(value)

C9_OneLinePerReturnedStatistic ==
    pc = "display_done" =>
        /\ Len(out) = Len(arg.score) + 2
        /\ out[1] = arg.title \o " test:"
        /\ \A i \in 1..Len(arg.score) : out[i + 1] = StatLine(arg.names[i], arg.score[i])
        /\ out[Len(out)] = ""

(***************************************************************************)
(* C9 amended: a successful display_test prints the title line, one        *)
(* indented "name: value" line for each of the first min(number of names,  *)
(* number of returned statistics) statistics, the i-th value with the      *)
(* i-th name, then a blank line; statistics beyond the declared names are  *)
(* not printed.                                                            *)
(***************************************************************************)
C9_OneLinePerNamedStatistic ==
    pc = "display_done" =>
        LET n == IF Len(arg.names) < Len(arg.score) THEN Len(arg.names)
                 ELSE Len(arg.score)
        IN /\ Len(out) = n + 2
           /\ out[1] = arg.title \o " test:"
           /\ \A i \in 1..n : out[i + 1] = StatLine(arg.names[i], arg.score[i])
           /\ out[Len(out)] = ""

C9_Witness ==
    /\ pc = "display_done"
    /\ Len(arg.names) = 2
    /\ Len(arg.score) = 3
    /\ arg.names[1] # arg.names[2]
    /\ arg.score[1] # arg.score[2]
    /\ Len(out) = 4

(***************************************************************************)
(* C11: at the model fit the target vector and the feature matrix have the *)
(* same number of rows, and the i-th target value and the i-th feature row *)
(* come from the same raw record, the i-th one the two row filters keep:   *)
(* the target is split off after both filters, and from the split to the   *)
(* fit no step adds, removes or reorders rows of the table or the target.  *)
(***************************************************************************)
(* What the cleaning cells and the split make of one raw record. *)
CleanedRecord(r) ==
    LET one == [raw EXCEPT !.rows = <<r>>]
        cleaned_rows ==
            {drop(replace(filled), {"SalePrice"}).rows[1] :
                filled \in {fill_loop(drop(one, id_columns), default_values, 1).t}}
    IN CHOOSE row \in cleaned_rows : TRUE

C11_TargetAlignedWithFeatures ==
    LET s == Survivors(raw)
    IN /\ (pc \in {"dtypes", "fit", "transform"} \/ FitAborted) =>
              /\ Len(y) = Len(s)
              /\ Len(df.rows) = Len(s)
              /\ \A k \in 1..Len(s) :
                    /\ y[k] = raw.rows[s[k]]["SalePrice"]
                    /\ df.rows[k] = CleanedRecord(raw.rows[s[k]])
       /\ pc = "ols" =>
              /\ Len(y) = Len(s)
              /\ Len(df.rows) = Len(s)
              /\ \A k \in 1..Len(s) :
                    /\ y[k] = raw.rows[s[k]]["SalePrice"]
                    /\ \A rec \in {CleanedRecord(raw.rows[s[k]])} :
                           df.rows[k] = transform_row(column_transformer, rec)
       /\ pc = "rainbow" =>
              /\ Len(model.endog) = Len(model.exog.rows)
              /\ Len(model.endog) = Len(s)
              /\ \A k \in 1..Len(s) :
                    /\ model.endog[k] = raw.rows[s[k]]["SalePrice"]
                    /\ \A rec \in {CleanedRecord(raw.rows[s[k]])} :
                           model.exog.rows[k] = transform_row(column_transformer, rec)

C11_Witness ==
    /\ pc = "rainbow"
    /\ Len(raw.rows) = 2
    /\ ~neighborhood_kept(raw.rows[1])
    /\ Len(model.endog) = 1
    /\ raw.rows[1]["SalePrice"] # raw.rows[2]["SalePrice"]
    /\ model.endog[1] = raw.rows[2]["SalePrice"]
    /\ Len(model.exog.rows) = 1

(***************************************************************************)
(* C12: the model is fitted once and no diagnostic changes it, the feature *)
(* matrix or the target vector, so in every order in which the five        *)
(* diagnostics are run each of them is run and ends the same way: a test   *)
(* raises exactly when it raises on the fitted model, and the condition    *)
(* number is computed.                                                     *)
(***************************************************************************)
OrderEnded == model.fitted /\ ~ENABLED NextOrder

C12_DiagnosticsOrderIndependent ==
    /\ [][/\ (model' # model => pc = "ols")
          /\ (pc = "any_order" => UNCHANGED <<model, df, y>>)]_vars
    /\ [](\A t \in attempted \ {"condition_number"} :
             (t \in raised) = (t \in arg \/ t = "Breusch-Pagan"))
    /\ [](OrderEnded => attempted = Diagnostics)

(***************************************************************************)
(* C13: the default fill does not depend on the order of the columns of    *)
(* the default-value table: every order gives the table the dictionary's   *)
(* own order gives, in which a missing cell of a listed column holds that  *)
(* column's default and every other cell is as before; and filling one     *)
(* column changes no cell of any other column.                             *)
(***************************************************************************)
DefaultOf(c) ==
    LET k == CHOOSE k \in 1..NoItems : default_values[k][1] = c
    IN default_values[k][2]

C13_FillOrderInsensitive ==
    /\ pc = "order_filled" =>
          /\ df = fill_loop(res, default_values, 1).t
          /\ df.columns = res.columns
          /\ Len(df.rows) = Len(res.rows)
          /\ \A i \in 1..Len(res.rows) : \A c \in Cols(res) :
                df.rows[i][c] = IF c \in default_columns /\ isna(res.rows[i][c])
                                THEN DefaultOf(c) ELSE res.rows[i][c]
    /\ pc = "one_filled" =>
          /\ df.columns = res.columns
          /\ Len(df.rows) = Len(res.rows)
          /\ \A c \in Cols(res) \ {default_values[arg[1]][1]} :
                Column(df, c) = Column(res, c)

C13_Witness ==
    /\ pc = "order_filled"
    /\ arg = Reversed
    /\ Len(res.rows) = 2
    /\ isna(res.rows[1]["Alley"]) /\ isna(res.rows[1]["LotFrontage"])
    /\ ~isna(res.rows[2]["Alley"])
    /\ df.rows[1]["Alley"] = Str("None")
    /\ df.rows[1]["LotFrontage"] = Num(0)
    /\ df # res

(***************************************************************************)
(* C14: when the input table lacks a column the cleaning steps name (an    *)
(* identifier column, a row-filter column, a column of the default-value   *)
(* table, or SalePrice), the step that names it raises a KeyError nothing  *)
(* catches and the run ends there: no later cleaning step, no fit, no      *)
(* transformation of the table and no diagnostic output follows.           *)
(***************************************************************************)
NamingStep(c) ==
    IF c \in id_columns \cup filter_columns THEN "clean"
    ELSE IF c \in default_columns THEN "fill"
    ELSE "pop"

StepsUpTo(step) ==
    CASE step = "clean" -> {"clean"}
      [] step = "fill" -> {"clean", "fill"}
      [] step = "pop" -> {"clean", "fill", "recode", "pop"}

C14_MissingColumnEndsRun ==
    /\ [](arg # <<>> =>
            /\ pc \in StepsUpTo(NamingStep(arg[1])) \cup {"aborted"}
            /\ pc = "aborted" =>
                  /\ err = "KeyError"
                  /\ ~ENABLED Next
            /\ y = <<>>
            /\ column_transformer = NoFit
            /\ model = NoFit
            /\ out = <<>>
            /\ attempted = {})
    /\ [][arg # <<>> =>
            /\ (pc = NamingStep(arg[1])) = (pc' = "aborted")
            /\ (pc = "pop" => df' = df)]_vars

C14_Witness ==
    /\ arg = <<"SalePrice">>
    /\ pc = "aborted"
    /\ err = "KeyError"
    /\ Len(raw.rows) = 2
    /\ Len(df.rows) = 2
    /\ \E i \in 1..2 : isna(raw.rows[i]["Alley"]) /\ ~isna(df.rows[i]["Alley"])

(***************************************************************************)
(* C15: a diagnostic block is printed all or nothing.  When the test call  *)
(* inside display_test raises, no line of that test's block reaches the    *)
(* output, neither "<title> test:" nor a statistic line, and the cell      *)
(* prints for that test the error message of its handler and nothing       *)
(* else, for each of the four tests.  A test that does not raise gets its  *)
(* whole block.                                                            *)
(***************************************************************************)
HandlerMessage(title) ==
    IF title = "Breusch-Pagan" THEN breusch_pagan_message ELSE error_message(title)

Tests == Diagnostics \ {"condition_number"}

C15_BlockAllOrNothing ==
    /\ [](\A t \in raised : \A k \in 1..Len(out) : out[k] # t \o " test:")
    /\ [][\A t \in Tests :
            /\ (t \in raised' \ raised) =>
                   out' = out \o <<HandlerMessage(t)>>
            /\ (t \in attempted' \ attempted /\ t \notin raised') =>
                   /\ Len(out') > Len(out) + 2
                   /\ out'[Len(out) + 1] = t \o " test:"
                   /\ out'[Len(out')] = ""]_vars

(***************************************************************************)
(* C16: the feature matrix handed to OLS has no column that is constant    *)
(* with a non-zero value.  A min-max-scaled numeric column is all 0 or     *)
(* takes both 0 and 1, and a one-hot indicator column (first level         *)
(* dropped) is never all 1.  No intercept is added, so the Breusch-Pagan   *)
(* precondition fails for every fitted model, and whenever that test is    *)
(* run it ends in its error message and prints no block.                   *)
(***************************************************************************)
C16_NoConstantColumn ==
    /\ MatrixStage =>
          \A j \in 1..Len(df.columns) :
             LET Zero(i) == df.rows[i][j] = DoubleZero
                 One(i) == df.rows[i][j] = DoubleOne
                 I == 1..Len(df.rows)
             IN /\ ~constant_nonzero(df, j)
                /\ IF df.columns[j].block = "numerical"
                   THEN \/ \A i \in I : Zero(i)
                        \/ (\E i \in I : Zero(i)) /\ (\E i \in I : One(i))
                   ELSE /\ \A i \in I : Zero(i) \/ One(i)
                        /\ \E i \in I : Zero(i)
    /\ model.fitted => model.exog = df /\ ~has_constant(model.exog)
    /\ "Breusch-Pagan" \in attempted =>
          /\ "Breusch-Pagan" \in raised
          /\ \E k \in 1..Len(out) : out[k] = breusch_pagan_message
          /\ \A k \in 1..Len(out) : out[k] # "Breusch-Pagan test:"

(***************************************************************************)
(* C17: the two fixed tables are consistent.  For every column that has    *)
(* both a default value and a recoding sub-table, the default value is a   *)
(* key of that sub-table or one of its target values, so after cleaning a  *)
(* filled-in missing entry of such a column is an ordinal integer and      *)
(* never a leftover string.                                                *)
(***************************************************************************)
Targets(sub) == {p[2] : p \in sub}

InconsistentDefaults ==
    {c \in default_columns \cap recoded_columns :
        DefaultOf(c) \notin Keys(recoding_table[c]) \cup Targets(recoding_table[c])}

C17_DefaultsMatchRecoding ==
    AfterRecode =>
        /\ InconsistentDefaults = {}
        /\ LET s == Survivors(raw)
           IN \A k \in 1..Len(s) : \A c \in default_columns \cap recoded_columns :
                 isna(raw.rows[s[k]][c]) => IsNum(df.rows[k][c])
====
